---- MODULE Spec2Model ----
(***************************************************************************)
(* GenerativeRegressorFull (rampwf/workflows/generative_regressor_full.py) *)
(* predict_submission: conditional-weight reconstruction and the packing   *)
(* of (sizes, weights, types, params) into a fixed-stride record;          *)
(* step: sampling one joint vector from the predicted mixture.             *)
(*                                                                         *)
(* Floating-point numbers are exact rationals <<n, d>> with d > 0;         *)
(* <<0, 0>> is NaN, <<1, 0>> and <<-1, 0>> are +Inf and -Inf.  A cell of   *)
(* np.empty that was never assigned holds Unwritten.  Log-densities are    *)
(* integer valued (base-2 logarithms), so exp is the power of two and      *)
(* every weight stays rational.                                            *)
(***************************************************************************)
EXTENDS Integers, Sequences, FiniteSets, TLC

\* ------------------------------------------------------------------ bounds
MaxTargets == 2
MaxSlots == 4
MaxRows == 2

\* ------------------------------------------------------- float arithmetic
Abs(x) == IF x < 0 THEN -x ELSE x

Sign(x) == IF x < 0 THEN -1 ELSE IF x = 0 THEN 0 ELSE 1

RECURSIVE GCD(_, _)
GCD(a, b) == IF b = 0 THEN a ELSE GCD(b, a % b)

Rat(n, d) == LET g == GCD(Abs(n), d) IN <<n \div g, d \div g>>

NaN == <<0, 0>>

Unwritten == <<0, -1>>

IsFinite(v) == v[2] > 0

AsFloat(i) == <<i, 1>>

FAdd(a, b) ==
    IF ~IsFinite(a) \/ ~IsFinite(b) THEN NaN
    ELSE Rat(a[1] * b[2] + b[1] * a[2], a[2] * b[2])

FSub(a, b) ==
    IF ~IsFinite(a) \/ ~IsFinite(b) THEN NaN
    ELSE Rat(a[1] * b[2] - b[1] * a[2], a[2] * b[2])

FMul(a, b) ==
    IF ~IsFinite(a) \/ ~IsFinite(b) THEN NaN
    ELSE Rat(a[1] * b[1], a[2] * b[2])

\* numpy true division: x / 0 is +-Inf, 0 / 0 is NaN (a warning, no exception)
FDiv(a, b) ==
    IF ~IsFinite(a) \/ ~IsFinite(b) THEN NaN
    ELSE IF b[1] = 0 THEN <<Sign(a[1]), 0>>
    ELSE Rat(Sign(b[1]) * a[1] * b[2], a[2] * Abs(b[1]))

\* np.exp on an integer-valued log-density (base 2); NaN stays NaN
FExp(a) ==
    IF ~IsFinite(a) THEN NaN
    ELSE IF a[1] >= 0 THEN <<2 ^ a[1], 1>>
    ELSE <<1, 2 ^ (-a[1])>>

RECURSIVE FSum(_)
FSum(s) == IF s = <<>> THEN AsFloat(0) ELSE FAdd(Head(s), FSum(Tail(s)))

\* scipy.stats.norm.logpdf(x, loc, scale): NaN when scale <= 0, else the
\* quadratic penalty of the standardised residual plus the scale penalty
logpdf(x, loc, scale) ==
    IF scale <= 0 THEN NaN
    ELSE AsFloat(0 - (((x - loc) * (x - loc)) \div (scale * scale)) - (scale - 1))

\* ------------------------------------------------------------ numpy slices
\* number of columns selected by [start::stride] in an array of n columns
SliceCount(start, stride, n) ==
    IF start >= n THEN 0 ELSE (n - start + stride - 1) \div stride

\* row[start::stride], columns counted from 0
Strided(row, start, stride) ==
    [x \in 1..SliceCount(start, stride, Len(row)) |-> row[start + (x - 1) * stride + 1]]

\* row[start::stride] = vals with numpy broadcasting of one column;
\* a shape mismatch is a ValueError
SetStrided(acc, start, stride, vals) ==
    LET cnt == SliceCount(start, stride, Len(acc.row))
        pos(c) == ((c - 1 - start) \div stride) + 1
        hit(c) == c - 1 >= start /\ (c - 1 - start) % stride = 0
    IN  IF acc.exc # "none" THEN acc
        ELSE IF Len(vals) = cnt
        THEN [exc |-> "none",
              row |-> [c \in 1..Len(acc.row) |->
                          IF hit(c) THEN vals[pos(c)] ELSE acc.row[c]]]
        ELSE IF Len(vals) = 1
        THEN [exc |-> "none",
              row |-> [c \in 1..Len(acc.row) |->
                          IF hit(c) THEN vals[1] ELSE acc.row[c]]]
        ELSE [exc |-> "ValueError", row |-> acc.row]

\* values copied into the float record (integer codes become floats)
AsFloatRow(row) == [x \in 1..Len(row) |-> AsFloat(row[x])]

\* ------------------------------------------- predict_submission, one sample
\* nb_dists_per_dim = nb_dists_curr // n_targets
nb_dists_per_dim(nb_dists_curr, n_targets) == nb_dists_curr \div n_targets

\* not types.any(): every type code of every sample is 0 (Gaussian)
TypesAny(types_m) ==
    \E r \in 1..Len(types_m) : \E c \in 1..Len(types_m[r]) : types_m[r][c] # 0

\* mus = params[:, 0::2]; sigmas = params[:, 1::2]
mus(params_row) == Strided(params_row, 0, 2)

sigmas(params_row) == Strided(params_row, 1, 2)

\* l_probs[:, j, i] = norm.logpdf(y[:, i], mus[:, i], sigmas[:, i])
\* (j and i counted from 0; the columns read do not depend on j)
l_probs_entry(y_row, params_row, j, i) ==
    logpdf(y_row[i + 1], mus(params_row)[i + 1], sigmas(params_row)[i + 1])

l_probs_of(y_row, params_row, k, T) ==
    [j \in 1..k |-> [i \in 1..T |-> l_probs_entry(y_row, params_row, j - 1, i - 1)]]

\* mask[i:] = 0; p_excluded[:, :, i] = l_probs[:, :, mask].sum(axis=2)
p_excluded_of(l, k, T) ==
    [c \in 1..k |-> [d \in 1..T |-> FSum([i \in 1..(d - 1) |-> l[c][i]])]]

\* diffs[:, i, :] = sum_j weights_s[:, j] * exp(p_excluded[:, i, :] - p_excluded[:, j, :])
diffs_of(weights_s, p, k, T) ==
    [i \in 1..k |-> [d \in 1..T |->
        FSum([j \in 1..k |-> FMul(weights_s[j], FExp(FSub(p[i][d], p[j][d])))])]]

\* final_w = weights_s[:, :, np.newaxis] / diffs
final_w_of(weights_s, diffs, k, T) ==
    [c \in 1..k |-> [d \in 1..T |-> FDiv(weights_s[c], diffs[c][d])]]

\* norm_w = final_w.reshape(len(types), -1, order='F')
norm_w_of(final_w, k, T) ==
    [x \in 1..(k * T) |-> final_w[((x - 1) % k) + 1][((x - 1) \div k) + 1]]

\* lines 149-176 for one sample: the exception raised (or "none"), the
\* weights handed to the packing step and the l_probs table
Reconstruct(weights_row, params_row, y_row, y_bound, k, T) ==
    LET none == [exc |-> "none", weights |-> weights_row, l_probs |-> <<>>]
        fail(e) == [none EXCEPT !.exc = e]
    IN  IF ~y_bound THEN fail("UnboundLocalError")
        ELSE IF k >= 1 /\ (Len(mus(params_row)) < T \/ Len(sigmas(params_row)) < T)
        THEN fail("IndexError")
        ELSE IF Len(weights_row) < k THEN
            [fail("ValueError") EXCEPT !.l_probs = l_probs_of(y_row, params_row, k, T)]
        ELSE LET l == l_probs_of(y_row, params_row, k, T)
                 weights_s == SubSeq(weights_row, 1, k)
                 p == p_excluded_of(l, k, T)
                 dd == diffs_of(weights_s, p, k, T)
             IN  [exc |-> "none",
                  weights |-> norm_w_of(final_w_of(weights_s, dd, k, T), k, T),
                  l_probs |-> l]

\* for i in range(lo, hi): result[:, i::step] = src[:, i-offset::stride]
RECURSIVE FillColumns(_, _, _, _, _, _, _)
FillColumns(acc, i, hi, step, src, offset, stride) ==
    IF i >= hi THEN acc
    ELSE FillColumns(SetStrided(acc, i, step, Strided(src, i - offset, stride)),
                     i + 1, hi, step, src, offset, stride)

\* step = (size_concatenated + n_targets) // n_targets
step_of(size_concatenated, T) == (size_concatenated + T) \div T

\* result[:, 0::step] = sizes, sizes = np.full((len(types), n_targets), nb_dists_per_dim)
fill_sizes(acc, k, T, step) ==
    SetStrided(acc, 0, step, [d \in 1..T |-> AsFloat(k)])

\* fill_weights with the offset forgotten in the source column (i instead of
\* i-offset)
fill_weights_no_offset(acc, weights_row, k, step) ==
    FillColumns(acc, 1, k + 1, step, weights_row, 0, k)

\* offset = 1; result[:, i::step] = weights[:, i-offset::nb_dists_per_dim]
fill_weights(acc, weights_row, k, step) ==
    FillColumns(acc, 1, k + 1, step, weights_row, 1, k)

\* offset += nb_dists_per_dim; result[:, i::step] = types[:, i-offset::nb_dists_per_dim]
fill_types(acc, types_row, k, step) ==
    FillColumns(acc, 1 + k, 1 + 2 * k, step, AsFloatRow(types_row), 1 + k, k)

\* fill_params writing each pair as (std, mean)
fill_params_swapped(acc, params_row, k, T, step) ==
    FillColumns(acc, 1 + 2 * k, (Len(params_row) \div T) + 1 + 2 * k, step,
                AsFloatRow([x \in 1..Len(params_row) |->
                    IF x % 2 = 1 /\ x < Len(params_row) THEN params_row[x + 1]
                    ELSE IF x % 2 = 0 THEN params_row[x - 1]
                    ELSE params_row[x]]),
                1 + 2 * k, Len(params_row) \div T)

\* offset += nb_dists_per_dim;
\* result[:, i::step] = params[:, i-offset::params.shape[1]//n_targets]
fill_params(acc, params_row, k, T, step) ==
    FillColumns(acc, 1 + 2 * k, (Len(params_row) \div T) + 1 + 2 * k, step,
                AsFloatRow(params_row), 1 + 2 * k, Len(params_row) \div T)

\* lines 179-202 for one sample
Pack(weights_row, types_row, params_row, k, T) ==
    LET size_concatenated == Len(weights_row) + Len(types_row) + Len(params_row)
        step == step_of(size_concatenated, T)
        empty == [exc |-> "none",
                  row |-> [c \in 1..(T + size_concatenated) |-> Unwritten]]
    IN  fill_params(
            fill_types(
                fill_weights(fill_sizes(empty, k, T, step), weights_row, k, step),
                types_row, k, step),
            params_row, k, T, step)

\* lines 140-202 for one sample
PredictRow(weights_row, types_row, params_row, y_row, y_bound, gaussian, T, max_dists) ==
    LET nb_dists_curr == Len(types_row)
        k == nb_dists_per_dim(nb_dists_curr, T)
        untouched == [exc |-> "none", weights |-> weights_row, l_probs |-> <<>>]
        rec == IF gaussian
               THEN Reconstruct(weights_row, params_row, y_row, y_bound, k, T)
               ELSE untouched
        packed == Pack(rec.weights, types_row, params_row, k, T)
    IN  IF nb_dists_curr > max_dists
        THEN [exc |-> "AssertionError", row |-> <<>>, weights |-> weights_row,
              l_probs |-> <<>>]
        ELSE IF rec.exc # "none"
        THEN [exc |-> rec.exc, row |-> <<>>, weights |-> weights_row,
              l_probs |-> rec.l_probs]
        ELSE [exc |-> packed.exc,
              row |-> IF packed.exc = "none" THEN packed.row ELSE <<>>,
              weights |-> rec.weights, l_probs |-> rec.l_probs]

\* ------------------------------------------------------------------- step
\* row-major flattening of a 2-D array
RECURSIVE Flatten(_)
Flatten(m) == IF m = <<>> THEN <<>> ELSE Head(m) \o Flatten(Tail(m))

\* w_components = weights.reshape(n_targets, -1)[0]
w_components_of(weights_m, T) ==
    LET flat == Flatten(weights_m)
    IN  IF Len(flat) % T # 0
        THEN [exc |-> "ValueError", p |-> <<>>]
        ELSE [exc |-> "none", p |-> SubSeq(flat, 1, Len(flat) \div T)]

\* rng_choice renormalising p instead of rejecting a sum other than 1
rng_choice_renormalised(a, p) ==
    IF a = 0 \/ (\E x \in 1..Len(p) : ~IsFinite(p[x]) \/ p[x][1] < 0)
    THEN [exc |-> "ValueError", outcomes |-> {}]
    ELSE [exc |-> "none", outcomes |-> {c \in 0..(a - 1) : p[c + 1][1] > 0}]

\* rng.choice(a, p=p): ValueError when a is 0, when a probability is negative
\* or NaN, or when p does not sum to 1; else an index of positive probability
rng_choice(a, p) ==
    IF a = 0 \/ (\E x \in 1..Len(p) : ~IsFinite(p[x]) \/ p[x][1] < 0)
       \/ FSum(p) # AsFloat(1)
    THEN [exc |-> "ValueError", outcomes |-> {}]
    ELSE [exc |-> "none", outcomes |-> {c \in 0..(a - 1) : p[c + 1][1] > 0}]

\* params[:, 0::2].reshape(n_samples, n_targets, -1)[0, :, c] (mus) and
\* params[:, 1::2].reshape(n_samples, n_targets, -1)[0, :, c] (sigmas)
selected_of(cols, T, c) ==
    [d \in 1..T |-> cols[(d - 1) * (Len(cols) \div T) + c + 1]]

\* rng.multivariate_normal(mus, np.diag(sigmas ** 2)): per dimension the mean
\* displaced by noise[d] standard deviations
multivariate_normal(mu, sigma, noise) ==
    [d \in 1..Len(mu) |-> mu[d] + noise[d] * Abs(sigma[d])]

\* standard-normal draws kept by the model
Noise == {-1, 0, 1}

\* lines 243-261 up to the categorical draw
StepDraw(weights_m, params_m, T) ==
    LET w == w_components_of(weights_m, T)
        all_mus == mus(params_m[1])
        all_sigmas == sigmas(params_m[1])
        ch == rng_choice(Len(w.p), w.p)
    IN  IF w.exc # "none"
        THEN [exc |-> w.exc, p |-> <<>>, outcomes |-> {}]
        ELSE IF Len(all_mus) % T # 0 \/ Len(all_sigmas) % T # 0
        THEN [exc |-> "ValueError", p |-> w.p, outcomes |-> {}]
        ELSE [exc |-> ch.exc, p |-> w.p, outcomes |-> ch.outcomes]

\* all_mus[0, :, c] / all_sigmas[0, :, c] is out of bounds
StepIndexError(params_m, T, c) ==
    \/ c >= Len(mus(params_m[1])) \div T
    \/ c >= Len(sigmas(params_m[1])) \div T

\* ------------------------------------------------------------ the workflow
VARIABLES
    call,               \* the entry point invoked: predict_submission or step
    pc,                 \* "called", then "returned" or "raised"
    n_targets,          \* len(self.target_column_name)
    max_dists,          \* self.max_dists
    y,                  \* the truth columns bound to y (lines 130-132); <<>> when
                        \* X_array is a numpy array and y is never bound
    weights,            \* regressor.predict(...)[0], one row per sample
    types,              \* regressor.predict(...)[1]
    params,             \* regressor.predict(...)[2]
    exc,                \* the exception that ended the call, or "none"
    result,             \* the array returned by predict_submission
    l_probs,            \* l_probs of each sample (line 153), <<>> when not computed
    packed_weights,     \* weights as read by the packing step (line 183)
    w_components,       \* the probabilities given to rng.choice (line 246)
    selected_component, \* line 256, -1 when no component was drawn
    y_sampled           \* the array returned by step

vars == <<call, pc, n_targets, max_dists, y, weights, types, params, exc, result,
          l_probs, packed_weights, w_components, selected_component, y_sampled>>

\* one mixture slot as a regressor may predict it: weight, type code, mean, std
SlotProfiles ==
    { [w |-> <<1, 2>>, t |-> 0, mu |-> 0, sigma |-> 1],
      [w |-> <<1, 2>>, t |-> 0, mu |-> 1, sigma |-> 1],
      [w |-> <<1, 2>>, t |-> 0, mu |-> 0, sigma |-> 0],
      [w |-> <<1, 1>>, t |-> 1, mu |-> 1, sigma |-> 2] }

\* realised target values
YVals == {0, 1}

\* how the regressor keeps the (weights, types, params) contract
Contracts == {"kept", "weights_short", "weights_long", "one_param_per_slot"}

WeightsRow(slots, contract) ==
    LET full == [x \in 1..Len(slots) |-> slots[x].w]
    IN  IF contract = "weights_short" THEN SubSeq(full, 1, Len(full) - 1)
        ELSE IF contract = "weights_long" THEN Append(full, full[1])
        ELSE full

TypesRow(slots) == [x \in 1..Len(slots) |-> slots[x].t]

ParamsRow(slots, contract) ==
    IF contract = "one_param_per_slot"
    THEN [x \in 1..Len(slots) |-> slots[x].mu]
    ELSE [x \in 1..(2 * Len(slots)) |->
             IF x % 2 = 1 THEN slots[(x + 1) \div 2].mu ELSE slots[x \div 2].sigma]

\* a batch of n samples with the same features (and so the same prediction)
Batch(row, n) == [r \in 1..n |-> row]

Pending(c, T, md, yy, slots, contract, n) ==
    /\ call = c
    /\ pc = "called"
    /\ n_targets = T
    /\ max_dists = md
    /\ y = yy
    /\ weights = Batch(WeightsRow(slots, contract), n)
    /\ types = Batch(TypesRow(slots), n)
    /\ params = Batch(ParamsRow(slots, contract), n)
    /\ exc = "none"
    /\ result = <<>>
    /\ l_probs = <<>>
    /\ packed_weights = <<>>
    /\ w_components = <<>>
    /\ selected_component = -1
    /\ y_sampled = <<>>

InitPredict ==
    \E T \in 1..MaxTargets, K \in 1..MaxSlots, contract \in Contracts :
    \E slots \in [1..K -> SlotProfiles], md \in {MaxSlots - 1, MaxSlots},
       yy \in {<<>>} \cup {<<t>> : t \in [1..T -> YVals]} :
        Pending("predict_submission", T, md, yy, slots, contract, 1)

InitStep ==
    \E T \in 1..MaxTargets, K \in 1..MaxSlots, contract \in Contracts :
    \E slots \in [1..K -> SlotProfiles], n \in 1..MaxRows :
        Pending("step", T, MaxSlots, <<>>, slots, contract, n)

Init == InitPredict \/ InitStep

\* predict_submission, lines 110-202
PredictSubmission ==
    /\ call = "predict_submission"
    /\ pc = "called"
    /\ LET gaussian == ~TypesAny(types)
           out == [r \in 1..Len(types) |->
                      PredictRow(weights[r], types[r], params[r],
                                 IF y = <<>> THEN <<>> ELSE y[r], y # <<>>,
                                 gaussian, n_targets, max_dists)]
       IN  /\ exc' = out[1].exc
           /\ pc' = IF out[1].exc = "none" THEN "returned" ELSE "raised"
           /\ result' = IF out[1].exc = "none"
                        THEN [r \in 1..Len(types) |-> out[r].row] ELSE <<>>
           /\ l_probs' = [r \in 1..Len(types) |-> out[r].l_probs]
           /\ packed_weights' = [r \in 1..Len(types) |-> out[r].weights]
    /\ UNCHANGED <<call, n_targets, max_dists, y, weights, types, params,
                   w_components, selected_component, y_sampled>>

\* step, lines 229-261
Step ==
    /\ call = "step"
    /\ pc = "called"
    /\ LET draw == StepDraw(weights, params, n_targets)
       IN  /\ w_components' = draw.p
           /\ \/ /\ draw.exc # "none"
                 /\ exc' = draw.exc
                 /\ pc' = "raised"
                 /\ selected_component' = -1
                 /\ y_sampled' = <<>>
              \/ /\ draw.exc = "none"
                 /\ \E c \in draw.outcomes :
                      /\ selected_component' = c
                      /\ IF StepIndexError(params, n_targets, c)
                         THEN /\ exc' = "IndexError"
                              /\ pc' = "raised"
                              /\ y_sampled' = <<>>
                         ELSE \E noise \in [1..n_targets -> Noise] :
                              /\ exc' = "none"
                              /\ pc' = "returned"
                              /\ y_sampled' =
                                   <<multivariate_normal(
                                       selected_of(mus(params[1]), n_targets, c),
                                       selected_of(sigmas(params[1]), n_targets, c),
                                       noise)>>
    /\ UNCHANGED <<call, n_targets, max_dists, y, weights, types, params, result,
                   l_probs, packed_weights>>

Next == PredictSubmission \/ Step

Spec == Init /\ [][Next]_vars

\* ------------------------------------------------------------------ claims
IsPredict == call = "predict_submission"

IsStep == call = "step"

Done == pc # "called"

\* nb_dists_curr and the component count per dimension of the prediction
Slots == Len(types[1])

PerDim == Slots \div n_targets

\* the regressor kept the shape contract: one weight and one type per slot,
\* two params per slot, the same number of slots for every target dimension
ShapesKept ==
    /\ Len(weights[1]) = Slots
    /\ Len(params[1]) = 2 * Slots
    /\ Slots % n_targets = 0

Gaussian == ~TypesAny(types)

\* 0-based column of the record, and the slot of component c in dimension d
Cell(row, col) == row[col + 1]

SlotOf(c, d) == d * PerDim + c

\* C1: with the shape contract kept, every returned row has n_targets blocks
\* of width 4k+1; block d holds k, then the k weights of dimension d (the
\* regressor's own weights when some type is not Gaussian), then the k type
\* codes, then the k (mean, std) pairs; no column is left unwritten.
ThmC1 ==
    (IsPredict /\ pc = "returned" /\ ShapesKept) =>
        /\ Len(result) = Len(types)
        /\ ~Gaussian => packed_weights = weights
        /\ \A r \in 1..Len(result) :
            LET row == result[r]
                k == PerDim
                stp == 4 * k + 1
            IN  /\ Len(row) = n_targets * stp
                /\ \A x \in 1..Len(row) : row[x] # Unwritten
                /\ \A d \in 0..(n_targets - 1) :
                    LET o == d * stp
                    IN  /\ Cell(row, o) = AsFloat(k)
                        /\ \A c \in 0..(k - 1) :
                            /\ Cell(row, o + 1 + c) = packed_weights[r][SlotOf(c, d) + 1]
                            /\ Cell(row, o + 1 + k + c) =
                                   AsFloat(types[r][SlotOf(c, d) + 1])
                            /\ Cell(row, o + 1 + 2 * k + 2 * c) =
                                   AsFloat(params[r][2 * SlotOf(c, d) + 1])
                            /\ Cell(row, o + 2 + 2 * k + 2 * c) =
                                   AsFloat(params[r][2 * SlotOf(c, d) + 2])

WitC1 ==
    /\ IsPredict /\ pc = "returned" /\ ShapesKept /\ ~Gaussian
    /\ n_targets = 2 /\ PerDim = 2
    /\ weights[1][1] # weights[1][2]

\* reading a record row back by its layout: the count in column 0, then per
\* block k weights, k type codes (as integers) and 2k params (as integers)
Decode(row, T) ==
    LET stp == Len(row) \div T
        k == row[1][1]
    IN  [weights |-> [x \in 1..(k * T) |->
                         Cell(row, ((x - 1) \div k) * stp + 1 + ((x - 1) % k))],
         types |-> [x \in 1..(k * T) |->
                         Cell(row, ((x - 1) \div k) * stp + 1 + k + ((x - 1) % k))[1]],
         params |-> [x \in 1..(2 * k * T) |->
                         Cell(row, ((x - 1) \div (2 * k)) * stp + 1 + 2 * k
                                   + ((x - 1) % (2 * k)))[1]]]

\* C2: with the shape contract kept, decoding a returned row gives back the
\* weights the packing step received (the regressor's weights unless they
\* were reconstructed), the types and the params.
ThmC2 ==
    (IsPredict /\ pc = "returned" /\ ShapesKept) =>
        \A r \in 1..Len(result) :
            /\ Decode(result[r], n_targets) =
                   [weights |-> packed_weights[r], types |-> types[r],
                    params |-> params[r]]
            /\ ~Gaussian => Decode(result[r], n_targets).weights = weights[r]

WitC2 ==
    /\ IsPredict /\ pc = "returned" /\ ShapesKept
    /\ n_targets = 2 /\ PerDim = 2
    /\ \E a, b \in 1..Slots : types[1][a] # types[1][b]
    /\ \E a, b \in 1..Slots : params[1][2 * a] # params[1][2 * b]

\* C3: a slot count that n_targets does not divide ends predict_submission
\* in an error, and no record is returned.
CexC3 ==
    (IsPredict /\ Done /\ Slots % n_targets # 0) =>
        (pc = "raised" /\ result = <<>>)

\* some component of the prediction has a standard deviation <= 0
Degenerate ==
    \E r \in 1..Len(params) : \E x \in 1..Len(params[r]) :
        x % 2 = 0 /\ params[r][x] <= 0

\* log-density of the realised target of dimension i under component c's own
\* (mean, std) in dimension i, as the record layout places them
OwnLogpdf(r, c, i) ==
    logpdf(y[r][i + 1], params[r][2 * SlotOf(c, i) + 1], params[r][2 * SlotOf(c, i) + 2])

\* exclusion(c, d): component c's log-densities summed over dimensions 0..d-1
Exclusion(r, c, d) == FSum([i \in 1..d |-> OwnLogpdf(r, c, i - 1)])

ConditionalWeight(r, c, d) ==
    FDiv(FMul(weights[r][c + 1], FExp(Exclusion(r, c, d))),
         FSum([j \in 1..PerDim |->
                  FMul(weights[r][j], FExp(Exclusion(r, j - 1, d)))]))

\* the weight the record holds for component c of dimension d
WrittenWeight(r, c, d) == Cell(result[r], d * (4 * PerDim + 1) + 1 + c)

\* C4: when all types are Gaussian the weight written for (c, d) is
\* marginal_weight(c) * exp(exclusion(c, d)) / sum_j marginal_weight(j) *
\* exp(exclusion(j, d)) (stated for predictions whose stds are all positive).
CexC4 ==
    (IsPredict /\ pc = "returned" /\ ShapesKept /\ Gaussian /\ ~Degenerate) =>
        \A r \in 1..Len(result) : \A d \in 0..(n_targets - 1) :
            \A c \in 0..(PerDim - 1) :
                WrittenWeight(r, c, d) = ConditionalWeight(r, c, d)

\* the marginal weights of every dimension of every sample sum to 1
MarginalsSumToOne ==
    \A r \in 1..Len(weights) : \A d \in 0..(n_targets - 1) :
        FSum([c \in 1..PerDim |-> weights[r][SlotOf(c - 1, d) + 1]]) = AsFloat(1)

\* C5: all types Gaussian and marginal weights summing to 1 per dimension:
\* the weights written for each dimension sum to 1.
CexC5 ==
    (IsPredict /\ pc = "returned" /\ ShapesKept /\ Gaussian /\ MarginalsSumToOne) =>
        \A r \in 1..Len(result) : \A d \in 0..(n_targets - 1) :
            FSum([c \in 1..PerDim |-> WrittenWeight(r, c - 1, d)]) = AsFloat(1)

\* C6: a standard deviation <= 0 met by the reconstruction ends
\* predict_submission in an error and no record is returned.
CexC6 ==
    (IsPredict /\ Done /\ ShapesKept /\ Gaussian /\ Degenerate) =>
        (pc = "raised" /\ result = <<>>)

\* the prediction is a valid mixture
ValidMixture == ShapesKept /\ MarginalsSumToOne

\* the marginal weights of the first target dimension of the first sample
FirstDimWeights == SubSeq(weights[1], 1, PerDim)

\* C7: step draws one component c from the first-dimension marginal weights
\* (k outcomes), whatever the number of rows, uses component c's (mean, std)
\* in every dimension and returns one row of n_targets values.
CexC7 ==
    (IsStep /\ Done /\ ValidMixture) =>
        /\ pc = "returned"
        /\ w_components = FirstDimWeights
        /\ selected_component \in 0..(PerDim - 1)
        /\ Len(y_sampled) = 1
        /\ Len(y_sampled[1]) = n_targets
        /\ \A d \in 0..(n_targets - 1) :
            \E e \in Noise :
                y_sampled[1][d + 1] =
                    params[1][2 * SlotOf(selected_component, d) + 1]
                    + e * Abs(params[1][2 * SlotOf(selected_component, d) + 2])

CexC9 ==
    (IsPredict /\ Done
        /\ (\/ Len(weights[1]) # Slots
            \/ Len(params[1]) # 2 * Slots
            \/ Slots > max_dists)) =>
        (pc = "raised" /\ result = <<>>)

\* C10: the log-density entry (c, i) of every sample is the density of the
\* realised target of dimension i under component c's (mean, std) of
\* dimension i (stated for predictions whose stds are all positive).
CexC10 ==
    (IsPredict /\ pc = "returned" /\ ShapesKept /\ Gaussian /\ ~Degenerate) =>
        \A r \in 1..Len(l_probs) : \A c \in 0..(PerDim - 1) :
            \A i \in 0..(n_targets - 1) :
                l_probs[r][c + 1][i + 1] = OwnLogpdf(r, c, i)

====
